---- MODULE Spec2Model ----
(***************************************************************************)
(* Batch job runner of the mockup backend (backend/main.py): start_batch,  *)
(* process_job, job_status and download_job_csv over the jobs and          *)
(* processed_companies tables (backend/models.py).                         *)
(*                                                                         *)
(* Python text values are sequences of one-character strings (messages and *)
(* URLs are sequences of tokens), Python None is the value None below, a   *)
(* Python dict is a sequence of <<key, value>> pairs in insertion order.   *)
(***************************************************************************)
EXTENDS Integers, Sequences, FiniteSets, TLC

\* ----------------------------------------------------------------- bounds
\* batches started in one run
MaxJobs == 2
\* data rows of an uploaded sheet
MaxRows == 2
\* the largest total the progress formula is evaluated for on its own
MaxTotal == 50
\* transient failures (render, upload, storage) injected in one run
MaxFaults == 1
\* characters of a text that is laid out
MaxText == 6
\* width of a text box
MaxBox == 3
\* characters of a company name
MaxName == 5
\* pixels along a side of an image or of a box
MaxSide == 4

\* ------------------------------------------------------- Python primitives
None == <<"None">>

Truthy(v) == v # None /\ v # <<>>

\* a or b
PyOr(a, b) == IF Truthy(a) THEN a ELSE b

\* str(v) of a cell value
PyStr(v) == IF v = None THEN <<"N", "o", "n", "e">> ELSE v

IsSpace(c) == c \in {" ", "\t", "\n"}

RECURSIVE LStrip(_)
LStrip(s) == IF s # <<>> /\ IsSpace(s[1]) THEN LStrip(Tail(s)) ELSE s

RECURSIVE RStrip(_)
RStrip(s) ==
    IF s # <<>> /\ IsSpace(s[Len(s)]) THEN RStrip(SubSeq(s, 1, Len(s) - 1)) ELSE s

\* s.strip()
Strip(s) == RStrip(LStrip(s))

HasKey(d, k) == \E i \in 1..Len(d) : d[i][1] = k

\* d.get(k, dflt)
DictGet(d, k, dflt) ==
    IF HasKey(d, k) THEN d[CHOOSE i \in 1..Len(d) : d[i][1] = k][2] ELSE dflt

\* d[k] = v
DictSet(d, k, v) ==
    IF HasKey(d, k)
    THEN [i \in 1..Len(d) |-> IF d[i][1] = k THEN <<k, v>> ELSE d[i]]
    ELSE Append(d, <<k, v>>)

\* list(d.keys())
DictKeys(d) == [i \in 1..Len(d) |-> d[i][1]]

\* ------------------------------------------- IEEE-754 double, as CPython's
\* A positive double is [m, e]: m a string of MantissaBits bits, most
\* significant first and leading bit 1, the value being m * 2^e.
MantissaBits == 53

Zeros(c) == [i \in 1..c |-> 0]

PadTo(b, w) == Zeros(w - Len(b)) \o b

RECURSIVE StripZeros(_)
StripZeros(b) == IF b # <<>> /\ b[1] = 0 THEN StripZeros(Tail(b)) ELSE b

RECURSIVE BitsToInt(_)
BitsToInt(b) ==
    IF b = <<>> THEN 0 ELSE 2 * BitsToInt(SubSeq(b, 1, Len(b) - 1)) + b[Len(b)]

RECURSIVE IntToBits(_)
IntToBits(v) == IF v = 0 THEN <<>> ELSE Append(IntToBits(v \div 2), v % 2)

\* the carry into position i when bit strings a and b of one length are added
CarryInto(a, b, i) ==
    \E j \in (i + 1)..Len(a) :
        /\ a[j] + b[j] = 2
        /\ \A t \in (i + 1)..(j - 1) : a[t] + b[t] = 1

\* the sum of bit strings a and b of one length, one bit wider than they are
BitsAdd(a, b) ==
    LET bit(i) == (a[i] + b[i] + (IF CarryInto(a, b, i) THEN 1 ELSE 0)) % 2
    IN <<IF CarryInto(a, b, 0) THEN 1 ELSE 0>> \o [i \in 1..Len(a) |-> bit(i)]

BitsSum(a, b) ==
    LET w == IF Len(a) > Len(b) THEN Len(a) ELSE Len(b)
    IN BitsAdd(PadTo(a, w), PadTo(b, w))

BitsInc(b) == StripZeros(BitsSum(b, <<1>>))

RECURSIVE BitsTimes(_, _)
BitsTimes(m, vb) ==
    IF vb = <<>> THEN <<>>
    ELSE LET hi == Append(BitsTimes(m, SubSeq(vb, 1, Len(vb) - 1)), 0)
         IN IF vb[Len(vb)] = 1 THEN BitsSum(hi, m) ELSE hi

\* 2^i modulo n
RECURSIVE Pow2Mod(_, _)
Pow2Mod(i, n) ==
    IF i = 0 THEN 1 % n
    ELSE LET h == Pow2Mod(i \div 2, n)
         IN (h * h * (IF i % 2 = 1 THEN 2 ELSE 1)) % n

\* the remainder left after c bits of the binary expansion of r / n, 0 <= r < n
DivRem(r, n, c) == (r * Pow2Mod(c, n)) % n

\* the first c bits of that expansion
DivBits(r, n, c) == [i \in 1..c |-> IF 2 * DivRem(r, n, i - 1) >= n THEN 1 ELSE 0]

\* the number of zero bits that lead it, 0 < r < n
LeadingZeros(r, n) ==
    CHOOSE z \in 0..n : /\ 2 * DivRem(r, n, z) >= n
                        /\ \A t \in 0..(z - 1) : 2 * DivRem(r, n, t) < n

\* The exact value bits * 2^e (bits with leading 1; sticky: non-zero bits lie
\* beyond them) rounded to a double, round-half-to-even.
RoundToDouble(bits, e, sticky) ==
    IF Len(bits) <= MantissaBits
    THEN [m |-> bits \o Zeros(MantissaBits - Len(bits)),
          e |-> e - (MantissaBits - Len(bits))]
    ELSE LET keep == SubSeq(bits, 1, MantissaBits)
             rest == SubSeq(bits, MantissaBits + 1, Len(bits))
             more == sticky \/ \E i \in 2..Len(rest) : rest[i] = 1
             up == rest[1] = 1 /\ (more \/ keep[MantissaBits] = 1)
             d == Len(rest)
             inc == BitsInc(keep)
         IN IF ~up THEN [m |-> keep, e |-> e + d]
            ELSE IF Len(inc) > MantissaBits
                 THEN [m |-> SubSeq(inc, 1, MantissaBits), e |-> e + d + 1]
                 ELSE [m |-> inc, e |-> e + d]

\* k / n of two ints (true division), 1 <= k <= n
FloatDiv(k, n) ==
    IF k = n
    THEN [m |-> <<1>> \o Zeros(MantissaBits - 1), e |-> -(MantissaBits - 1)]
    ELSE LET z == LeadingZeros(k, n)
             c == z + MantissaBits + 1
         IN RoundToDouble(SubSeq(DivBits(k, n, c), z + 1, c), -c, DivRem(k, n, c) # 0)

\* f * v, v a positive int
FloatMulInt(f, v) ==
    RoundToDouble(StripZeros(BitsTimes(f.m, IntToBits(v))), f.e, FALSE)

\* int(f)
FloatToInt(f) ==
    IF MantissaBits + f.e <= 0 THEN 0
    ELSE BitsToInt(SubSeq(f.m, 1, MantissaBits + f.e))

\* int((k / n) * 100), 0 <= k <= n and n >= 1
PercentOf(k, n) ==
    IF k = 0 THEN 0 ELSE FloatToInt(FloatMulInt(FloatDiv(k, n), 100))

\* ------------------------------------------------------------ the uploads
IdentifierColumn == <<"Company">>
MockupColumn == <<"mockup_url">>

\* the cells an uploaded sheet carries in its identifier column: a blank
\* spreadsheet cell and one identifier, with and without padding
IdentifierCells == {None, <<"a">>, <<"a", " ">>}

InputRows == {<<<<IdentifierColumn, c>>>> : c \in IdentifierCells}

\* parse_csv_file: the rows of an uploaded file, headers on the first line
Sheets == UNION {[1..n -> InputRows] : n \in 0..MaxRows}

JobIds == 1..MaxJobs

NoJob == [status |-> "absent"]

\* ids of the templates batches are run against, and the choice of a client
\* that always uses the first
Templates == {"default", "roofing"}

DefaultOnly == [j \in JobIds |-> "default"]

\* ------------------------------------------------------------ the messages
MsgSkipped == <<"Identifier already processed">>
MsgTemplateMissing == <<"Template image not found">>
MsgSdkMissing == <<"Cloudinary SDK not installed">>
MsgCredentialsMissing == <<"Cloudinary credentials missing">>
\* str(e) of an exception raised while compositing, uploading, querying
MsgRender == <<"height and width must be > 0">>
MsgUpload == <<"upload failed">>
MsgStorage == <<"database error">>

Faults == {"none", "render", "upload", "storage"}

NumStr(n) == <<"0", "1", "2", "3", "4", "5", "6", "7", "8", "9">>[n + 1]

\* the secure_url the asset host returns for the upload of row idx of job j
UrlOf(j, idx) == <<"https://res.cloudinary.com/", NumStr(j), NumStr(idx)>>

VARIABLES
    env,                  \* module constants and files: base_image, cloudinary
    form,                 \* what the client submits with each batch: csv_file,
                          \* identifier_column, and template_id for each batch
    jobs,                 \* table jobs, as committed
    processed_companies,  \* table processed_companies, as committed: the identifiers
    runner,               \* process_job's thread of each job: its locals and position
    polled,               \* the progress job_status last returned for each job
    download,             \* the CSV download_job_csv last returned for each job
    rendered,             \* <<job, row>> for which apply_variables was called
    uploaded,             \* <<job, row>> for which cloudinary.uploader.upload was called
    hist,                 \* per job: the rows as uploaded, the jobs done at its start,
                          \* the identifiers it inserted
    faults,               \* how many transient failures have been injected so far
    calc                  \* one evaluation of a pure function: its inputs and result

vars == <<env, form, jobs, processed_companies, runner, polled, download, rendered,
          uploaded, hist, faults, calc>>

NoThread ==
    [pc |-> "none", idx |-> 0, rows |-> <<>>, results |-> <<>>,
     skip_processed |-> FALSE, identifier_column |-> None,
     processed_cache |-> {}, pending |-> None]

\* a deployment with the template's base image on disk and the asset host
\* configured, and the deployments where one of them is missing
OkEnv == [base_image |-> TRUE, cloudinary |-> "ready"]

BrokenEnvs ==
    {[base_image |-> FALSE, cloudinary |-> "ready"],
     [base_image |-> TRUE, cloudinary |-> "no_sdk"],
     [base_image |-> TRUE, cloudinary |-> "no_credentials"]}

\* the sheets whose rows all carry the identifier "a": where identifiers are
\* never read or never recorded, only the number of rows matters
PlainSheets ==
    {s \in Sheets : \A i \in 1..Len(s) : s[i] = <<<<IdentifierColumn, <<"a">> >>>>}

NoCalc == [total |-> 0, k |-> 0, progress |-> -1]

NoPoll == -1

NoDownload == [code |-> 0]

Init ==
    /\ \/ /\ env = OkEnv
          /\ form \in [csv_file : Sheets, identifier_column : {IdentifierColumn},
                     template_ids : {DefaultOnly}]
       \/ /\ env = OkEnv
          /\ form \in [csv_file : PlainSheets, identifier_column : {None},
                     template_ids : {DefaultOnly}]
       \/ /\ env \in BrokenEnvs
          /\ form \in [csv_file : PlainSheets, identifier_column : {IdentifierColumn},
                     template_ids : {DefaultOnly}]
    /\ jobs = [j \in JobIds |-> NoJob]
    /\ processed_companies = {}
    /\ runner = [j \in JobIds |-> NoThread]
    /\ polled = [j \in JobIds |-> NoPoll]
    /\ download = [j \in JobIds |-> NoDownload]
    /\ rendered = {}
    /\ uploaded = {}
    /\ hist = [j \in JobIds |-> [input |-> <<>>, done_before |-> {}, inserted |-> {}]]
    /\ calc = NoCalc
    /\ faults = 0

\* ------------------------------------------------------------- start_batch
\* POST /api/batch: the job row is committed, then process_job is handed to a
\* thread. Job ids are fresh: here the next unused one.
StartBatch(j, template_id, rows, skip_processed, identifier_column) ==
    /\ jobs[j] = NoJob
    /\ \A i \in 1..(j - 1) : jobs[i] # NoJob
    /\ rows # <<>>
    /\ jobs' = [jobs EXCEPT ![j] =
                  [status |-> "running", progress |-> 0, results |-> <<>>,
                   rows |-> rows, template_id |-> template_id,
                   skip_processed |-> skip_processed,
                   identifier_column |-> identifier_column]]
    /\ runner' = [runner EXCEPT ![j] =
                  [NoThread EXCEPT !.pc = "load", !.rows = rows,
                                   !.skip_processed = skip_processed,
                                   !.identifier_column = identifier_column]]
    /\ hist' = [hist EXCEPT ![j] =
                  [input |-> rows,
                   done_before |-> {i \in JobIds : jobs[i].status = "done"},
                   inserted |-> {}]]
    /\ UNCHANGED <<env, form, faults, processed_companies, polled, download, rendered, uploaded, calc>>

\* ------------------------------------------------------------- process_job
\* identifier_value of a row (None when no identifier column is configured)
IdentifierValue(row, identifier_column) ==
    IF Truthy(identifier_column)
    THEN Strip(PyStr(PyOr(DictGet(row, identifier_column, None), <<>>)))
    ELSE None

\* the skip test of a row
\* a loop that never takes the skip branch
SkipNever(skip_processed, identifier_value, processed_cache) == FALSE

ShouldSkip(skip_processed, identifier_value, processed_cache) ==
    skip_processed /\ Truthy(identifier_value) /\ identifier_value \in processed_cache

\* apply_variables: None when an image comes back, else str(e) of what it raises
ApplyVariables(e, fault) ==
    IF ~e.base_image THEN MsgTemplateMissing
    ELSE IF fault = "render" THEN MsgRender
    ELSE None

\* an upload that never looks at the configuration
UploadUnchecked(e, fault, j, idx) ==
    IF fault = "upload"
    THEN [error |-> MsgUpload, url |-> None, called |-> TRUE]
    ELSE [error |-> None, url |-> UrlOf(j, idx), called |-> TRUE]

\* upload_to_cloudinary: the URL, or str(e) of what it raises; called: whether
\* the uploader was reached
UploadToCloudinary(e, fault, j, idx) ==
    IF e.cloudinary = "no_sdk"
    THEN [error |-> MsgSdkMissing, url |-> None, called |-> FALSE]
    ELSE IF e.cloudinary = "no_credentials"
    THEN [error |-> MsgCredentialsMissing, url |-> None, called |-> FALSE]
    ELSE IF fault = "upload"
    THEN [error |-> MsgUpload, url |-> None, called |-> TRUE]
    ELSE [error |-> None, url |-> UrlOf(j, idx), called |-> TRUE]

\* an except branch that drops the message
ExceptSilent(status, row, message) ==
    [result |-> [status EXCEPT !.status = "error"],
     row |-> DictSet(row, MockupColumn, <<>>)]

\* the except branch: what it leaves of the status dict and of the row
ExceptBranch(status, row, message) ==
    [result |-> [status EXCEPT !.status = "error", !.error = message],
     row |-> DictSet(row, MockupColumn, <<>>)]

\* whether the done branch records the identifier
RecordsIdentifier(identifier_value, processed_cache) ==
    Truthy(identifier_value) /\ identifier_value \notin processed_cache

\* The body of the loop for row idx, up to results.append: the result, the
\* row, the cache, the ProcessedCompany the session holds for the commit, and
\* whether the renderer and the uploader were called.
RowBody(j, r, fault) ==
    LET idx == r.idx
        row == r.rows[idx + 1]
        status == [row |-> idx, status |-> "pending", url |-> None, error |-> None]
        identifier_value == IdentifierValue(row, r.identifier_column)
        quiet == [cache |-> r.processed_cache, pending |-> None,
                  rendered |-> FALSE, uploaded |-> FALSE]
    IN IF ShouldSkip(r.skip_processed, identifier_value, r.processed_cache)
       THEN [result |-> [status EXCEPT !.status = "skipped", !.error = MsgSkipped,
                                       !.url = None],
             row |-> DictSet(row, MockupColumn, DictGet(row, MockupColumn, <<>>))]
            @@ quiet
       ELSE LET image == ApplyVariables(env, fault) IN
       IF image # None
       THEN ExceptBranch(status, row, image) @@ [quiet EXCEPT !.rendered = TRUE]
       ELSE LET up == UploadToCloudinary(env, fault, j, idx) IN
       IF up.error # None
       THEN ExceptBranch(status, row, up.error)
            @@ [quiet EXCEPT !.rendered = TRUE, !.uploaded = up.called]
       ELSE LET done == [status EXCEPT !.status = "done", !.url = up.url]
                sent == [quiet EXCEPT !.rendered = TRUE, !.uploaded = TRUE]
            IN
       IF ~RecordsIdentifier(identifier_value, r.processed_cache)
       THEN [result |-> done, row |-> DictSet(row, MockupColumn, up.url)] @@ sent
       ELSE LET cached == [sent EXCEPT !.cache = @ \cup {identifier_value}] IN
       IF fault = "storage"
       THEN ExceptBranch(done, DictSet(row, MockupColumn, up.url), MsgStorage) @@ cached
       ELSE [result |-> done, row |-> DictSet(row, MockupColumn, up.url)]
            @@ [cached EXCEPT !.pending =
                   IF identifier_value \in processed_companies
                   THEN None ELSE identifier_value]

\* PercentOf over the totals a job of the model has, evaluated once
PercentTable ==
    UNION {{<<k, n, PercentOf(k, n)>> : k \in 0..n} : n \in 1..MaxRows}

Percent(k, n) ==
    IF n <= MaxRows /\ k <= n
    THEN (CHOOSE t \in PercentTable : t[1] = k /\ t[2] = n)[3]
    ELSE PercentOf(k, n)

\* progress that counts the rows before row idx only
ProgressBefore(idx, total) == Percent(idx, total)

\* progress that counts the rows still to come
ProgressRemaining(idx, total) == Percent(total - (idx + 1), total)

\* job.progress after row idx of total
ProgressAfter(idx, total) == Percent(idx + 1, total)

\* a loop that ends after its first pass
AfterFirstRow(idx, total) == "finish"

\* where the loop goes after the commit of row idx
AfterCommit(idx, total) == IF idx + 1 < total THEN "row" ELSE "finish"

\* session.commit() with a ProcessedCompany pending: the unique constraint on
\* identifier rejects one that another session has committed meanwhile
CommitRaises(pending, committed) == pending # None /\ pending \in committed

\* a cache that starts empty whatever the table holds
LoadNothing(skip_processed, identifier_column, committed) == {}

\* processed_cache as process_job fills it before the loop
LoadProcessedCache(skip_processed, identifier_column, committed) ==
    IF skip_processed /\ Truthy(identifier_column)
    THEN {x \in committed : Truthy(x)} ELSE {}

\* the thread starts: session.get(Job), then the processed identifiers are read
RunnerLoad(j) ==
    /\ runner[j].pc = "load"
    /\ runner' = [runner EXCEPT ![j] =
          [@ EXCEPT !.pc = "row",
                    !.processed_cache =
                       LoadProcessedCache(runner[j].skip_processed,
                                          runner[j].identifier_column,
                                          processed_companies)]]
    /\ UNCHANGED <<env, form, faults, jobs, processed_companies, polled, download, rendered,
                   uploaded, hist, calc>>

\* whether a result comes from a transient failure rather than from the
\* deployment or the data
Transient(result) == result.error \in {MsgRender, MsgUpload, MsgStorage}

\* one pass of the loop body, up to results.append
ProcessRow(j) ==
    /\ runner[j].pc = "row"
    /\ \E fault \in Faults :
         LET b == RowBody(j, runner[j], fault) IN
         /\ Transient(b.result) => faults < MaxFaults
         /\ faults' = IF Transient(b.result) THEN faults + 1 ELSE faults
         /\ runner' = [runner EXCEPT ![j] =
               [@ EXCEPT !.pc = "commit",
                         !.rows = [@ EXCEPT ![runner[j].idx + 1] = b.row],
                         !.results = Append(@, b.result),
                         !.processed_cache = b.cache,
                         !.pending = b.pending]]
         /\ rendered' = IF b.rendered THEN rendered \cup {<<j, runner[j].idx>>} ELSE rendered
         /\ uploaded' = IF b.uploaded THEN uploaded \cup {<<j, runner[j].idx>>} ELSE uploaded
    /\ UNCHANGED <<env, form, jobs, processed_companies, polled, download, hist, calc>>

\* progress, results and rows of the job and the pending ProcessedCompany go
\* to the database in one commit; an IntegrityError leaves process_job.
CommitRow(j) ==
    LET r == runner[j]
        total == Len(r.rows)
    IN
    /\ r.pc = "commit"
    /\ IF CommitRaises(r.pending, processed_companies)
       THEN /\ runner' = [runner EXCEPT ![j] = [@ EXCEPT !.pc = "raised"]]
            /\ UNCHANGED <<jobs, processed_companies, hist>>
       ELSE /\ jobs' = [jobs EXCEPT ![j] =
                  [@ EXCEPT !.progress = ProgressAfter(r.idx, total),
                            !.results = r.results,
                            !.rows = [@ EXCEPT ![r.idx + 1] = r.rows[r.idx + 1]]]]
            /\ processed_companies' =
                  IF r.pending # None THEN processed_companies \cup {r.pending}
                  ELSE processed_companies
            /\ hist' = IF r.pending # None
                       THEN [hist EXCEPT ![j].inserted = @ \cup {r.pending}]
                       ELSE hist
            /\ runner' = [runner EXCEPT ![j] =
                  [@ EXCEPT !.pc = AfterCommit(r.idx, total),
                            !.idx = r.idx + 1,
                            !.pending = None]]
    /\ UNCHANGED <<env, form, faults, polled, download, rendered, uploaded, calc>>

\* after the loop: status done is committed and the thread ends
FinishJob(j) ==
    /\ runner[j].pc = "finish"
    /\ jobs' = [jobs EXCEPT ![j] = [@ EXCEPT !.status = "done"]]
    /\ runner' = [runner EXCEPT ![j] = [@ EXCEPT !.pc = "exited"]]
    /\ UNCHANGED <<env, form, faults, processed_companies, polled, download, rendered, uploaded,
                   hist, calc>>

\* -------------------------------------------------------------- job_status
Max(a, b) == IF a > b THEN a ELSE b

\* a poll that takes every job for complete
DerivedComplete(job) == 100

\* derived_progress of GET /api/jobs/{job_id}
DerivedProgress(job) ==
    LET total == Len(job.rows)
        processed == Len(job.results)
        done_like == Cardinality({i \in 1..Len(job.results) :
                        job.results[i].status \in {"done", "skipped", "error"}})
    IN IF total # 0 THEN Percent(Max(processed, done_like), total)
       ELSE job.progress

\* whether the poll stores its derived progress
PollStores(derived, stored) == derived > stored

\* the progress of the response
PollProgress(stored, derived) == Max(stored, derived)

JobStatus(j) ==
    /\ jobs[j] # NoJob
    /\ LET derived == DerivedProgress(jobs[j])
           stored == IF PollStores(derived, jobs[j].progress)
                     THEN derived ELSE jobs[j].progress
       IN /\ jobs' = [jobs EXCEPT ![j] = [@ EXCEPT !.progress = stored]]
          /\ polled' = [polled EXCEPT ![j] = PollProgress(stored, derived)]
    /\ UNCHANGED <<env, form, faults, processed_companies, runner, download, rendered, uploaded,
                   hist, calc>>

\* -------------------------------------------------------- download_job_csv
\* str() of a cell as csv.DictWriter writes it
CsvText(v) == IF v = None THEN <<>> ELSE v

\* serialize_rows_to_csv: the header line and the data lines, cell by cell;
\* DictWriter raises ValueError on a row with a key outside the headers
SerializeRowsToCsv(rows) ==
    IF rows = <<>> THEN [code |-> 200, headers |-> <<>>, lines |-> <<>>]
    ELSE LET keys == DictKeys(rows[1])
             headers == IF \E i \in 1..Len(keys) : keys[i] = MockupColumn
                        THEN keys ELSE Append(keys, MockupColumn)
             known(k) == \E i \in 1..Len(headers) : headers[i] = k
         IN IF \E n \in 1..Len(rows) : \E i \in 1..Len(rows[n]) : ~known(rows[n][i][1])
            THEN [code |-> 500]
            ELSE [code |-> 200, headers |-> headers,
                  lines |-> [n \in 1..Len(rows) |->
                               [i \in 1..Len(headers) |->
                                  CsvText(DictGet(rows[n], headers[i], <<>>))]]]

\* the loop that fills mockup_url from the results of the rows that are done
RECURSIVE FillUrls(_, _)
FillUrls(rows, results) ==
    IF results = <<>> THEN rows
    ELSE LET res == results[1]
             filled ==
                IF /\ res.status = "done"
                   /\ Truthy(res.url)
                   /\ res.row < Len(rows)
                THEN [rows EXCEPT ![res.row + 1] = DictSet(@, MockupColumn, res.url)]
                ELSE rows
         IN FillUrls(filled, Tail(results))

\* a download that does not look at the status
CsvAlways(job) == TRUE

\* whether GET /api/jobs/{job_id}/csv answers with the CSV
CsvAllowed(job) == job.status = "done"

DownloadJobCsv(j) ==
    /\ jobs[j] # NoJob
    /\ download' =
          IF CsvAllowed(jobs[j])
          THEN [download EXCEPT ![j] =
                  SerializeRowsToCsv(FillUrls(jobs[j].rows, jobs[j].results))]
          ELSE download
    /\ UNCHANGED <<env, form, faults, jobs, processed_companies, runner, polled, rendered,
                   uploaded, hist, calc>>

\* ----------------------------------------------------------- specifications
Next ==
    \/ \E j \in JobIds, skip_processed \in BOOLEAN :
          StartBatch(j, form.template_ids[j], form.csv_file, skip_processed,
                     form.identifier_column)
    \/ \E j \in JobIds : RunnerLoad(j)
    \/ \E j \in JobIds : ProcessRow(j)
    \/ \E j \in JobIds : CommitRow(j)
    \/ \E j \in JobIds : FinishJob(j)
    \/ \E j \in JobIds : JobStatus(j)
    \/ \E j \in JobIds : DownloadJobCsv(j)

Spec == Init /\ [][Next]_vars

\* The progress formula alone: one evaluation for each total and each row.
InitProgress ==
    /\ env = OkEnv
    /\ form = [csv_file |-> <<>>, identifier_column |-> None,
               template_ids |-> DefaultOnly]
    /\ jobs = [j \in JobIds |-> NoJob]
    /\ processed_companies = {}
    /\ runner = [j \in JobIds |-> NoThread]
    /\ polled = [j \in JobIds |-> NoPoll]
    /\ download = [j \in JobIds |-> NoDownload]
    /\ rendered = {}
    /\ uploaded = {}
    /\ hist = [j \in JobIds |-> [input |-> <<>>, done_before |-> {}, inserted |-> {}]]
    /\ faults = 0
    /\ \E total \in 1..MaxTotal : \E k \in 1..total :
          calc = [total |-> total, k |-> k, progress |-> -1]

ComputeProgress ==
    /\ calc.total > 0
    /\ calc.progress = -1
    /\ calc' = [calc EXCEPT !.progress = ProgressAfter(calc.k - 1, calc.total)]
    /\ UNCHANGED <<env, form, faults, jobs, processed_companies, runner, polled, download,
                   rendered, uploaded, hist>>

SpecProgress == InitProgress /\ [][ComputeProgress]_vars

\* no batch has been started yet
NoBatches ==
    /\ jobs = [j \in JobIds |-> NoJob]
    /\ runner = [j \in JobIds |-> NoThread]
    /\ polled = [j \in JobIds |-> NoPoll]
    /\ download = [j \in JobIds |-> NoDownload]
    /\ rendered = {}
    /\ uploaded = {}
    /\ hist = [j \in JobIds |-> [input |-> <<>>, done_before |-> {}, inserted |-> {}]]
    /\ faults = 0

\* Sheets that already carry a mockup_url column (the CSV of an earlier job
\* uploaded again), with blank, white-space and padded identifier cells.
MockupCells == {<<>>, <<"https://old">>}

WideRows ==
    {<<<<IdentifierColumn, c>>, <<MockupColumn, u>>>> :
        c \in IdentifierCells \cup {<<" ">>}, u \in MockupCells}

WideSheets == UNION {[1..n -> WideRows] : n \in 1..MaxRows}

\* One batch of such a sheet, over a processed_companies table that earlier
\* runs may have filled.
InitSheets ==
    /\ env = OkEnv
    /\ form \in [csv_file : WideSheets, identifier_column : {IdentifierColumn},
               template_ids : {DefaultOnly}]
    /\ processed_companies \in SUBSET {<<"a">>}
    /\ NoBatches
    /\ calc = NoCalc

NextSheets ==
    \/ \E skip_processed \in BOOLEAN :
          StartBatch(1, form.template_ids[1], form.csv_file, skip_processed,
                     form.identifier_column)
    \/ RunnerLoad(1)
    \/ ProcessRow(1)
    \/ CommitRow(1)
    \/ FinishJob(1)
    \/ DownloadJobCsv(1)

SpecSheets == InitSheets /\ [][NextSheets]_vars

\* batches of one client against any of the templates
InitTemplates ==
    /\ env = OkEnv
    /\ form \in [csv_file : PlainSheets, identifier_column : {IdentifierColumn},
                 template_ids : [JobIds -> Templates]]
    /\ processed_companies = {}
    /\ NoBatches
    /\ calc = NoCalc

SpecTemplates == InitTemplates /\ [][Next]_vars

\* --------------------------------------------------- shorten_company_name
Letters ==
    <<<<"a", "A">>, <<"b", "B">>, <<"c", "C">>, <<"d", "D">>, <<"e", "E">>,
      <<"f", "F">>, <<"g", "G">>, <<"h", "H">>, <<"i", "I">>, <<"j", "J">>,
      <<"k", "K">>, <<"l", "L">>, <<"m", "M">>, <<"n", "N">>, <<"o", "O">>,
      <<"p", "P">>, <<"q", "Q">>, <<"r", "R">>, <<"s", "S">>, <<"t", "T">>,
      <<"u", "U">>, <<"v", "V">>, <<"w", "W">>, <<"x", "X">>, <<"y", "Y">>,
      <<"z", "Z">>>>

Digits == {"0", "1", "2", "3", "4", "5", "6", "7", "8", "9"}

IsLower(c) == \E i \in 1..Len(Letters) : Letters[i][1] = c

IsUpper(c) == \E i \in 1..Len(Letters) : Letters[i][2] = c

LowerChar(c) ==
    IF IsUpper(c) THEN Letters[CHOOSE i \in 1..Len(Letters) : Letters[i][2] = c][1]
    ELSE c

UpperChar(c) ==
    IF IsLower(c) THEN Letters[CHOOSE i \in 1..Len(Letters) : Letters[i][1] = c][2]
    ELSE c

\* s.lower()
Lower(s) == [i \in 1..Len(s) |-> LowerChar(s[i])]

\* s.capitalize()
Capitalize(s) ==
    [i \in 1..Len(s) |-> IF i = 1 THEN UpperChar(s[i]) ELSE LowerChar(s[i])]

\* s.strip(chars)
StripChars(s, chars) ==
    LET keep == {i \in 1..Len(s) : s[i] \notin chars}
        first == CHOOSE i \in keep : \A k \in keep : i <= k
        last == CHOOSE i \in keep : \A k \in keep : i >= k
    IN IF keep = {} THEN <<>> ELSE SubSeq(s, first, last)

\* s.split()
RECURSIVE Split(_)
Split(s) ==
    LET t == LStrip(s)
        stops == {i \in 1..Len(t) : IsSpace(t[i])}
        n == IF stops = {} THEN Len(t) + 1
             ELSE CHOOSE i \in stops : \A k \in stops : i <= k
    IN IF t = <<>> THEN <<>>
       ELSE <<SubSeq(t, 1, n - 1)>> \o Split(SubSeq(t, n, Len(t)))

\* " ".join(words)
RECURSIVE Join(_)
Join(words) ==
    IF words = <<>> THEN <<>>
    ELSE IF Len(words) = 1 THEN words[1]
    ELSE words[1] \o <<" ">> \o Join(Tail(words))

\* re.sub(r"[^a-zA-Z0-9 ]+", "", s)
Alnum(s) ==
    SelectSeq(s, LAMBDA c : IsLower(c) \/ IsUpper(c) \/ c \in Digits \/ c = " ")

suffixes ==
    {<<"i", "n", "c">>, <<"l", "l", "c">>, <<"l", "t", "d">>, <<"c", "o">>,
     <<"c", "o", "m", "p", "a", "n", "y">>, <<"g", "r", "o", "u", "p">>,
     <<"p", "l", "c">>, <<"c", "o", "r", "p">>,
     <<"c", "o", "r", "p", "o", "r", "a", "t", "i", "o", "n">>}

shorten_company_name(name) ==
    LET words == Split(Strip(name))
        kept == IF /\ words # <<>>
                   /\ StripChars(Lower(words[Len(words)]), {",", "."}) \in suffixes
                THEN SubSeq(words, 1, Len(words) - 1) ELSE words
        cleaned == Strip(Alnum(Join(kept)))
        parts == Split(cleaned)
    IN Join([i \in 1..Len(parts) |-> Capitalize(parts[i])])

NameChars == {"c", "o", "X", " ", ".", ","}

Names == UNION {[1..n -> NameChars] : n \in 0..MaxName}

InitName ==
    /\ env = OkEnv
    /\ form = [csv_file |-> <<>>, identifier_column |-> None,
               template_ids |-> DefaultOnly]
    /\ processed_companies = {}
    /\ NoBatches
    /\ \E name \in Names : calc = [name |-> name, shortened |-> FALSE, short |-> <<>>]

ShortenName ==
    /\ ~calc.shortened
    /\ calc' = [calc EXCEPT !.shortened = TRUE, !.short = shorten_company_name(calc.name)]
    /\ UNCHANGED <<env, form, faults, jobs, processed_companies, runner, polled,
                   download, rendered, uploaded, hist>>

SpecName == InitName /\ [][ShortenName]_vars

\* ------------------------------------------------- apply_variables: values
\* the value apply_variables hands to draw_text_block or paste_image for one
\* variable; a variable is [id, type, defaultValue], the mapping a dict from
\* variable ids to column names
ResolveValue(variable, mapping, row) ==
    LET var_id == variable.id
        column == DictGet(mapping, var_id, None)
        mapped == IF Truthy(column)
                  THEN Strip(PyStr(DictGet(row, column, <<>>))) ELSE <<>>
        value == IF ~Truthy(mapped) THEN variable.defaultValue ELSE mapped
    IN IF variable.type = "text" /\ ~Truthy(value) /\ var_id = <<"short_name">>
       THEN shorten_company_name(PyStr(DictGet(row, column, <<>>)))
       ELSE value

\* the variables, mappings and rows one resolution is evaluated for
Variables ==
    [id : {<<"short_name">>, <<"title">>}, type : {"text", "image"},
     defaultValue : {<<>>, <<"d">>}]

Mappings(var_id) ==
    {<<>>, <<<<var_id, IdentifierColumn>>>>, <<<<var_id, <<"Missing">>>>>>,
     <<<<var_id, <<>>>>>>,  <<<<<<"other">>, IdentifierColumn>>>>}

ValueCells == {None, <<>>, <<" ">>, <<"a">>, <<" ", "a", " ">>, <<"a", " ", "c", "o">>}

InitValue ==
    /\ env = OkEnv
    /\ form = [csv_file |-> <<>>, identifier_column |-> None,
               template_ids |-> DefaultOnly]
    /\ processed_companies = {}
    /\ NoBatches
    /\ \E variable \in Variables : \E mapping \in Mappings(variable.id) :
       \E cell \in ValueCells :
          calc = [variable |-> variable, mapping |-> mapping,
                  row |-> <<<<IdentifierColumn, cell>>>>,
                  resolved |-> FALSE, value |-> <<>>]

Resolve ==
    /\ ~calc.resolved
    /\ calc' = [calc EXCEPT !.resolved = TRUE,
                            !.value = ResolveValue(calc.variable, calc.mapping, calc.row)]
    /\ UNCHANGED <<env, form, faults, jobs, processed_companies, runner, polled,
                   download, rendered, uploaded, hist>>

SpecValue == InitValue /\ [][Resolve]_vars

\* ------------------------------------------------------- draw_text_block
\* The font, as ImageDraw.textbbox measures it: the advance of each glyph and
\* the rows its ink covers, from top (inclusive) to bottom (exclusive).
Glyphs ==
    [c \in {"A", "a", "y", " "} |->
        CASE c = "A" -> [advance |-> 2, top |-> 2, bottom |-> 10, ink |-> TRUE]
          [] c = "a" -> [advance |-> 1, top |-> 4, bottom |-> 10, ink |-> TRUE]
          [] c = "y" -> [advance |-> 1, top |-> 4, bottom |-> 12, ink |-> TRUE]
          [] c = " " -> [advance |-> 1, top |-> 0, bottom |-> 0, ink |-> FALSE]]

\* bbox[2] - bbox[0] of draw.textbbox((0, 0), s, font=font)
RECURSIVE TextWidth(_)
TextWidth(s) == IF s = <<>> THEN 0 ELSE Glyphs[s[1]].advance + TextWidth(Tail(s))

\* bbox[3] - bbox[1] of draw.textbbox((0, 0), s, font=font)
TextHeight(s) ==
    LET inked == {i \in 1..Len(s) : Glyphs[s[i]].ink}
        top == CHOOSE t \in {Glyphs[s[i]].top : i \in inked} :
                  \A i \in inked : t <= Glyphs[s[i]].top
        bottom == CHOOSE b \in {Glyphs[s[i]].bottom : i \in inked} :
                     \A i \in inked : b >= Glyphs[s[i]].bottom
    IN IF inked = {} THEN 0 ELSE bottom - top

\* the loop of wrap_text_to_box over the words that are left
RECURSIVE WrapWords(_, _, _, _)
WrapWords(words, current, lines, max_width) ==
    IF words = <<>>
    THEN IF current # <<>> THEN Append(lines, current) ELSE lines
    ELSE LET word == words[1]
             test_line == Strip(current \o <<" ">> \o word)
         IN IF TextWidth(test_line) <= max_width
            THEN WrapWords(Tail(words), test_line, lines, max_width)
            ELSE WrapWords(Tail(words), word,
                           IF current # <<>> THEN Append(lines, current) ELSE lines,
                           max_width)

\* wrap_text_to_box with a box as wide as the text
WrapUnbounded(text, max_width) == WrapWords(Split(text), <<>>, <<>>, TextWidth(text))

wrap_text_to_box(text, max_width) == WrapWords(Split(text), <<>>, <<>>, max_width)

MaxOf(S) == CHOOSE m \in S : \A v \in S : m >= v

\* int(line_height * 0.18), for the line heights of the font
NudgeTable ==
    {<<v, FloatToInt(FloatMulInt(FloatDiv(9, 50), v))>> : v \in 1..12}

Nudge(line_height) == (CHOOSE t \in NudgeTable : t[1] = line_height)[2]

\* line_height of draw_text_block
LineHeight(lines) ==
    IF lines # <<>> THEN MaxOf({TextHeight(lines[i]) : i \in 1..Len(lines)})
    ELSE TextHeight(<<"A", "y">>)

\* draw_text_block: the lines and where draw.text puts each of them
draw_text_block(variable, text) ==
    LET lines == wrap_text_to_box(text, variable.w)
        line_height == LineHeight(lines)
        total_height == Len(lines) * line_height
        placed == CASE variable.valign = "top" -> variable.y
                    [] variable.valign = "bottom" ->
                          variable.y + Max(variable.h - total_height, 0)
                    [] OTHER ->
                          variable.y + Max((variable.h - total_height) \div 2, 0)
        start_y == Max(placed - Nudge(line_height), variable.y)
        line_x(line) ==
            CASE variable.align = "center" ->
                    variable.x + Max((variable.w - TextWidth(line)) \div 2, 0)
              [] variable.align = "right" ->
                    variable.x + Max(variable.w - TextWidth(line), 0)
              [] OTHER -> variable.x
    IN [lines |-> lines, line_height |-> line_height,
        at |-> [i \in 1..Len(lines) |->
                  <<line_x(lines[i]), start_y + (i - 1) * line_height>>]]

Texts == UNION {[1..n -> DOMAIN Glyphs] : n \in 0..MaxText}

TextBoxes ==
    [x : {0}, y : {0}, w : 1..MaxBox, h : {8, 40},
     align : {"left", "center", "right"}, valign : {"top", "middle", "bottom"}]

InitText ==
    /\ env = OkEnv
    /\ form = [csv_file |-> <<>>, identifier_column |-> None,
               template_ids |-> DefaultOnly]
    /\ processed_companies = {}
    /\ NoBatches
    /\ \E variable \in TextBoxes : \E text \in Texts :
          calc = [variable |-> variable, text |-> text, drawn |-> FALSE,
                  lines |-> <<>>, line_height |-> 0, at |-> <<>>]

DrawText ==
    /\ ~calc.drawn
    /\ LET out == draw_text_block(calc.variable, calc.text)
       IN calc' = [calc EXCEPT !.drawn = TRUE, !.lines = out.lines,
                               !.line_height = out.line_height, !.at = out.at]
    /\ UNCHANGED <<env, form, faults, jobs, processed_companies, runner, polled,
                   download, rendered, uploaded, hist>>

SpecText == InitText /\ [][DrawText]_vars

\* ------------------------------------------------------------ paste_image
\* a / b of two positive ints (true division)
FloatDivInts(a, b) ==
    LET q == a \div b
        r == a % b
        c == MantissaBits + 1
    IN IF q = 0 THEN FloatDiv(a, b)
       ELSE IF r = 0 THEN RoundToDouble(IntToBits(q), 0, FALSE)
       ELSE RoundToDouble(IntToBits(q) \o DivBits(r, b, c), -c, DivRem(r, b, c) # 0)

\* f > g of two positive doubles
FloatGreater(f, g) ==
    \/ f.e > g.e
    \/ /\ f.e = g.e
       /\ \E i \in 1..MantissaBits :
             /\ f.m[i] > g.m[i]
             /\ \A k \in 1..(i - 1) : f.m[k] = g.m[k]

\* Heights of the source images: powers of two, for which img.width /
\* img.height is exact and w / img_ratio is the rounded quotient
\* (w * height) / width.
ImageHeights == {1, 2, 4}

Images == [width : 1..MaxSide, height : ImageHeights]

\* the fit mode of a variable; "absent": the variable has no key "fit"
ImageBoxes ==
    [x : {0, 3}, y : {0}, w : 1..MaxSide, h : 1..MaxSide, fit : {"absent", "cover"}]

\* variable.get("fit", "cover")
FitMode(variable) == IF variable.fit = "absent" THEN "cover" ELSE variable.fit

\* the else branch of paste_image: the size the image is resized to and the
\* corner it is pasted at
CoverFit(img, variable) ==
    LET w == variable.w
        h == variable.h
        img_ratio == FloatDivInts(img.width, img.height)
        box_ratio == FloatDivInts(w, h)
        wider == FloatGreater(img_ratio, box_ratio)
        new_width == IF wider THEN w ELSE FloatToInt(FloatMulInt(img_ratio, h))
        new_height == IF wider
                      THEN FloatToInt(FloatDivInts(w * img.height, img.width))
                      ELSE h
    IN [new_width |-> new_width, new_height |-> new_height,
        paste_x |-> variable.x + (w - new_width) \div 2,
        paste_y |-> variable.y + (h - new_height) \div 2]

InitCover ==
    /\ env = OkEnv
    /\ form = [csv_file |-> <<>>, identifier_column |-> None,
               template_ids |-> DefaultOnly]
    /\ processed_companies = {}
    /\ NoBatches
    /\ \E img \in Images : \E variable \in ImageBoxes :
          calc = [img |-> img, variable |-> variable, pasted |-> FALSE,
                  new_width |-> 0, new_height |-> 0, paste_x |-> 0, paste_y |-> 0]

PasteImage ==
    /\ ~calc.pasted
    /\ FitMode(calc.variable) # "contain"
    /\ LET out == CoverFit(calc.img, calc.variable)
       IN calc' = [calc EXCEPT !.pasted = TRUE,
                               !.new_width = out.new_width,
                               !.new_height = out.new_height,
                               !.paste_x = out.paste_x, !.paste_y = out.paste_y]
    /\ UNCHANGED <<env, form, faults, jobs, processed_companies, runner, polled,
                   download, rendered, uploaded, hist>>

SpecCover == InitCover /\ [][PasteImage]_vars

\* ------------------------------------------------------------------ claims
Last(seq) == seq[Len(seq)]

Created(j) == jobs[j] # NoJob

Terminal == {"done", "skipped", "error"}

\* C1: once a job is done its progress is exactly 100, it has exactly one
\* result for each of its N rows, in row order, and every result's status is
\* done, skipped or error.
C1_DoneIsComplete ==
    \A j \in JobIds :
        (Created(j) /\ jobs[j].status = "done") =>
            /\ jobs[j].progress = 100
            /\ Len(jobs[j].results) = Len(hist[j].input)
            /\ \A i \in 1..Len(jobs[j].results) :
                  /\ jobs[j].results[i].row = i - 1
                  /\ jobs[j].results[i].status \in Terminal

\* a done job of two rows, one that failed and one that was uploaded
C1_Witness ==
    \E j \in JobIds :
        /\ Created(j) /\ jobs[j].status = "done"
        /\ Len(jobs[j].results) = 2
        /\ jobs[j].results[1].status = "error"
        /\ jobs[j].results[2].status = "done"

\* a result of a row whose render or upload raised: status error, no URL yet
RaisedBeforeUrl(result) == result.status = "error" /\ result.url = None

RecordedEarlier(j, idx) ==
    /\ Created(j)
    /\ jobs[j].skip_processed
    /\ Truthy(jobs[j].identifier_column)
    /\ LET id == IdentifierValue(hist[j].input[idx + 1], jobs[j].identifier_column)
       IN /\ Truthy(id)
          /\ \E i \in hist[j].done_before : id \in hist[i].inserted

\* C3: in a run with skipProcessed and the identifier column, a row whose
\* non-empty identifier an earlier finished job recorded is never rendered and
\* never uploaded, and its result is skipped.
C3_RerunSkips ==
    \A j \in JobIds : \A idx \in 0..(Len(hist[j].input) - 1) :
        RecordedEarlier(j, idx) =>
            /\ <<j, idx>> \notin rendered
            /\ <<j, idx>> \notin uploaded
            /\ idx < Len(runner[j].results) =>
                  runner[j].results[idx + 1].status = "skipped"
            /\ idx < Len(jobs[j].results) =>
                  jobs[j].results[idx + 1].status = "skipped"

\* a re-run that is done and has skipped a row an earlier job recorded
C3_Witness ==
    \E j \in JobIds : \E idx \in 0..(Len(hist[j].input) - 1) :
        /\ RecordedEarlier(j, idx)
        /\ jobs[j].status = "done"
        /\ jobs[j].results[idx + 1].status = "skipped"

\* C4: a job is created running with progress 0 and no results; it becomes
\* done only with a result for each of its N rows; and no step (runner, poll
\* or download) changes the status, progress or results of a done job.
C4_Lifecycle ==
    [][\A j \in JobIds :
          /\ (~Created(j) /\ jobs'[j] # NoJob) =>
                /\ jobs'[j].status = "running"
                /\ jobs'[j].progress = 0
                /\ jobs'[j].results = <<>>
          /\ (Created(j) /\ jobs[j].status # "done" /\ jobs'[j].status = "done") =>
                /\ Len(jobs'[j].results) = Len(hist[j].input)
                /\ \A i \in 1..Len(hist[j].input) : jobs'[j].results[i].row = i - 1
          /\ (Created(j) /\ jobs[j].status = "done") =>
                /\ jobs'[j].status = "done"
                /\ jobs'[j].progress = jobs[j].progress
                /\ jobs'[j].results = jobs[j].results]_vars

\* a done job that has been polled and downloaded
C4_Witness ==
    \E j \in JobIds :
        /\ Created(j) /\ jobs[j].status = "done"
        /\ polled[j] = 100
        /\ download[j] # NoDownload

\* C5: the persisted progress of a job never decreases, the progress that
\* successive polls return never decreases, and a poll returns at least what
\* it leaves stored.
C5_ProgressMonotone ==
    [][\A j \in JobIds :
          /\ Created(j) => jobs'[j].progress >= jobs[j].progress
          /\ polled'[j] >= polled[j]
          /\ polled'[j] # polled[j] => polled'[j] >= jobs'[j].progress]_vars

\* a poll answered 50 and a later commit raised the progress to 100
C5_Witness ==
    \E j \in JobIds :
        /\ Created(j)
        /\ polled[j] = 50
        /\ jobs[j].progress = 100

\* C6: when two jobs each process a row with the same identifier, the second
\* insert is no failure: no commit meets an identifier that another session
\* has committed in the meantime.
C6_DuplicateInsertTolerated ==
    \A j \in JobIds :
        runner[j].pc = "commit" => ~CommitRaises(runner[j].pending, processed_companies)

\* C7: every job that is started is eventually done, whatever fails and
\* whatever runs beside it. Only process_job's own thread writes status done,
\* so the claim needs that this thread never ends, by return or by an
\* exception, with the job not done.
C7_ThreadEndsDone ==
    \A j \in JobIds :
        runner[j].pc \in {"raised", "exited"} => jobs[j].status = "done"

\* the cells of input row n under the original columns
OriginalCells(row) == [i \in 1..Len(DictKeys(row)) |-> CsvText(row[i][2])]

\* C8: a CSV is answered only for a done job; its header is the original
\* columns and then mockup_url; it has one line for each input row, in the
\* order of the input, with the row's original cells; and the mockup_url cell
\* of a row whose result is done is that result's URL.
C8_CsvOfDoneJob ==
    \A j \in JobIds :
        download[j] # NoDownload =>
            /\ jobs[j].status = "done"
            /\ download[j].code = 200 =>
                  /\ download[j].headers =
                        Append(DictKeys(hist[j].input[1]), MockupColumn)
                  /\ Len(download[j].lines) = Len(hist[j].input)
                  /\ \A n \in 1..Len(hist[j].input) :
                        LET line == download[j].lines[n]
                            cells == OriginalCells(hist[j].input[n])
                        IN /\ SubSeq(line, 1, Len(cells)) = cells
                           /\ Len(line) = Len(cells) + 1
                           /\ jobs[j].results[n].status = "done" =>
                                 Last(line) = jobs[j].results[n].url

\* the CSV of a two-row job with an uploaded row and a failed row
C8_Witness ==
    \E j \in JobIds :
        /\ download[j] # NoDownload
        /\ download[j].code = 200
        /\ Len(download[j].lines) = 2
        /\ jobs[j].results[1].status = "done"
        /\ jobs[j].results[2].status = "error"

\* C9: no job has a status other than running and done; and where the base
\* image is missing or the asset host is not installed or configured, every
\* result is error (with a message) or skipped, nothing is uploaded, the
\* thread never leaves the loop by an exception, and when it ends the job is
\* done with progress 100 and a result for each row.
C9_ConfigurationFailurePerRow ==
    \A j \in JobIds :
        /\ Created(j) => jobs[j].status \in {"running", "done"}
        /\ env \in BrokenEnvs =>
              /\ \A i \in 1..Len(runner[j].results) :
                    \/ runner[j].results[i].status = "skipped"
                    \/ /\ runner[j].results[i].status = "error"
                       /\ Truthy(runner[j].results[i].error)
              /\ uploaded = {}
              /\ runner[j].pc # "raised"
              /\ runner[j].pc = "exited" =>
                    /\ jobs[j].status = "done"
                    /\ jobs[j].progress = 100
                    /\ Len(jobs[j].results) = Len(hist[j].input)
                    /\ jobs[j].results = runner[j].results

\* a job of two rows done in a deployment that cannot render or upload
C9_Witness ==
    \E j \in JobIds :
        /\ env \in BrokenEnvs
        /\ runner[j].pc = "exited"
        /\ Len(jobs[j].results) = 2
        /\ \A i \in 1..2 : jobs[j].results[i].status = "error"

\* C10: the progress persisted after the k-th row of N is floor(k*100/N), for
\* every N >= 1 and every k in 1..N.
C10_ProgressIsFloor ==
    calc.progress # -1 => calc.progress = (calc.k * 100) \div calc.total

\* C11: a row that is skipped (skipProcessed set, identifier already
\* processed) is neither rendered nor uploaded, its result has no URL, and its
\* mockup_url column is empty, whatever the input row carried.
C11_SkippedRowIsEmpty ==
    \A j \in JobIds : \A i \in 1..Len(runner[j].results) :
        runner[j].results[i].status = "skipped" =>
            /\ <<j, i - 1>> \notin rendered
            /\ <<j, i - 1>> \notin uploaded
            /\ runner[j].results[i].url = None
            /\ DictGet(runner[j].rows[i], MockupColumn, None) = <<>>

\* C12: a row that ends with status error has an empty output URL, whichever
\* step failed: its result has no URL and its mockup_url column is empty.
C12_ErrorRowIsEmpty ==
    \A j \in JobIds : \A i \in 1..Len(runner[j].results) :
        runner[j].results[i].status = "error" =>
            /\ runner[j].results[i].url = None
            /\ DictGet(runner[j].rows[i], MockupColumn, None) = <<>>

\* the cell a mapping names for a variable ("" where there is none), a blank
\* spreadsheet cell read as empty
MappedCell(variable, mapping, row) ==
    LET column == DictGet(mapping, variable.id, None)
        cell == IF Truthy(column) THEN DictGet(row, column, <<>>) ELSE <<>>
    IN IF cell = None THEN <<>> ELSE Strip(cell)

\* C13: the value of a variable is the trimmed mapped cell when the mapping
\* names a column and that cell is not empty (blank, white space, missing);
\* otherwise the default value; and for the text variable short_name alone,
\* when both are empty, the shortened company name.
C13_ValueResolution ==
    calc.resolved =>
        LET cell == MappedCell(calc.variable, calc.mapping, calc.row)
            default == calc.variable.defaultValue
        IN calc.value =
              IF cell # <<>> THEN cell
              ELSE IF default # <<>> THEN default
              ELSE IF calc.variable.type = "text" /\ calc.variable.id = <<"short_name">>
                   THEN shorten_company_name(cell)
                   ELSE default

\* the words of a sequence of lines, in order
RECURSIVE WordsOf(_)
WordsOf(lines) ==
    IF lines = <<>> THEN <<>> ELSE Split(lines[1]) \o WordsOf(Tail(lines))

\* C14: each line of the word-wrap is no wider than the box or is one single
\* word; the words of the lines, in order, are the words of the text; and a
\* text without words gives no line.
C14_WrapFitsOrSingleWord ==
    calc.drawn =>
        /\ \A i \in 1..Len(calc.lines) :
              \/ TextWidth(calc.lines[i]) <= calc.variable.w
              \/ Len(Split(calc.lines[i])) = 1
        /\ \A i \in 1..Len(calc.lines) : calc.lines[i] = Join(Split(calc.lines[i]))
        /\ WordsOf(calc.lines) = Split(calc.text)
        /\ Split(calc.text) = <<>> => calc.lines = <<>>

\* a word wider than the box alone on its line, and a line of two words
C14_Witness ==
    /\ calc.drawn
    /\ \E i \in 1..Len(calc.lines) :
          TextWidth(calc.lines[i]) > calc.variable.w /\ Len(Split(calc.lines[i])) = 1
    /\ \E i \in 1..Len(calc.lines) : Len(Split(calc.lines[i])) = 2

\* C19: the line height is the rendered height of "Ay" in the font, whatever
\* the text; it spaces every line and, times the number of lines, places the
\* block vertically.
C19_LineHeightOfAy ==
    calc.drawn =>
        /\ calc.line_height = TextHeight(<<"A", "y">>)
        /\ \A i \in 1..Len(calc.at) :
              calc.at[i][2] = calc.at[1][2] + (i - 1) * calc.line_height

\* a token without the '.' and ',' at its end
RECURSIVE StripTrailing(_)
StripTrailing(token) ==
    IF token # <<>> /\ token[Len(token)] \in {".", ","}
    THEN StripTrailing(SubSeq(token, 1, Len(token) - 1)) ELSE token

\* the short name as described: the last token is dropped iff, lowercased and
\* without its trailing '.' and ',', it is a legal suffix
DescribedShortName(name) ==
    LET words == Split(Strip(name))
        kept == IF /\ words # <<>>
                   /\ StripTrailing(Lower(words[Len(words)])) \in suffixes
                THEN SubSeq(words, 1, Len(words) - 1) ELSE words
        parts == Split(Alnum(Join(kept)))
    IN Join([i \in 1..Len(parts) |-> Capitalize(parts[i])])

\* C16: shorten_company_name trims the name, drops the last token iff that
\* token, lowercased and stripped of trailing '.' and ',', is a legal suffix,
\* removes the characters outside [A-Za-z0-9 ], capitalises each word and
\* joins the words with single spaces.
C16_ShortenCompanyName ==
    calc.shortened => calc.short = DescribedShortName(calc.name)

\* C15: in cover mode the resized image keeps the aspect ratio of the source
\* (up to the truncation to whole pixels), is at least as wide and as high as
\* the box, and is centred on the centre of the box.
C15_CoverCoversBox ==
    calc.pasted =>
        /\ calc.new_width >= calc.variable.w
        /\ calc.new_height >= calc.variable.h
        /\ LET d == calc.new_width * calc.img.height - calc.new_height * calc.img.width
           IN d < Max(calc.img.width, calc.img.height)
              /\ -d < Max(calc.img.width, calc.img.height)
        /\ (2 * calc.variable.x + calc.variable.w)
              - (2 * calc.paste_x + calc.new_width) \in {0, 1}
        /\ (2 * calc.variable.y + calc.variable.h)
              - (2 * calc.paste_y + calc.new_height) \in {0, 1}

\* C17: the commit of a row that ended done with a non-empty identifier
\* stores the returned URL and leaves the identifier in the persistent
\* processed set; the commit of a row that ended in error or skipped adds
\* nothing to that set.
C17_DoneRowIsRecorded ==
    [][\A j \in JobIds :
          LET r == runner[j]
              q == runner'[j]
              result == Last(r.results)
              id == IdentifierValue(hist[j].input[r.idx + 1], r.identifier_column)
          IN (r.pc = "commit" /\ q.idx = r.idx + 1) =>
                /\ (result.status = "done" /\ Truthy(id)) =>
                      /\ jobs'[j].results[r.idx + 1].url = UrlOf(j, r.idx)
                      /\ id \in processed_companies'
                /\ result.status \in {"error", "skipped"} =>
                      processed_companies' = processed_companies]_vars

\* C20: a row is skipped only in a run with skipProcessed, only with a
\* non-empty identifier, and only if that identifier was in the persistent
\* processed set when the job loaded it (a set that only grows, so the
\* identifier is in it now) or an earlier row of the job with the same
\* identifier ended done.
C20_SkippedOnlyIfProcessed ==
    \A j \in JobIds : \A i \in 1..Len(runner[j].results) :
        LET r == runner[j]
            id == IdentifierValue(hist[j].input[i], r.identifier_column)
        IN r.results[i].status = "skipped" =>
              /\ r.skip_processed
              /\ Truthy(id)
              /\ \/ id \in processed_companies
                 \/ \E k \in 1..(i - 1) :
                       /\ IdentifierValue(hist[j].input[k], r.identifier_column) = id
                       /\ r.results[k].status = "done"

\* row idx of job j carries a non-empty identifier recorded by a job that
\* finished before j started and ran against another template, and j runs
\* with skipProcessed and the column
RecordedForOtherTemplate(j, idx) ==
    /\ Created(j)
    /\ jobs[j].skip_processed
    /\ Truthy(jobs[j].identifier_column)
    /\ LET id == IdentifierValue(hist[j].input[idx + 1], jobs[j].identifier_column)
       IN /\ Truthy(id)
          /\ \E i \in hist[j].done_before :
                /\ jobs[i].template_id # jobs[j].template_id
                /\ id \in hist[i].inserted

\* C18: an identifier recorded by a job run against one template makes a
\* later skipProcessed job run against another template skip the row that
\* carries it: the row is neither rendered nor uploaded and its result is
\* skipped.
C18_DedupAcrossTemplates ==
    \A j \in JobIds : \A idx \in 0..(Len(hist[j].input) - 1) :
        RecordedForOtherTemplate(j, idx) =>
            /\ <<j, idx>> \notin rendered
            /\ <<j, idx>> \notin uploaded
            /\ idx < Len(runner[j].results) =>
                  runner[j].results[idx + 1].status = "skipped"

\* a job on the template roofing has skipped a row whose identifier a job on
\* the template default recorded
C18_Witness ==
    \E j \in JobIds :
        /\ RecordedForOtherTemplate(j, 0)
        /\ jobs[j].template_id = "roofing"
        /\ Len(jobs[j].results) >= 1
        /\ jobs[j].results[1].status = "skipped"

\* C21: in every committed state of a job the results are a prefix of the
\* rows: k <= N results, result i has row index i, every status is done,
\* skipped or error, the stored progress is the one of k completed rows of N,
\* and status done implies k = N and progress 100.
C21_ResultsArePrefix ==
    \A j \in JobIds :
        Created(j) =>
            LET k == Len(jobs[j].results)
                N == Len(hist[j].input)
            IN /\ k <= N
               /\ Len(jobs[j].rows) = N
               /\ \A i \in 1..k :
                     /\ jobs[j].results[i].row = i - 1
                     /\ jobs[j].results[i].status \in Terminal
               /\ jobs[j].progress = Percent(k, N)
               /\ jobs[j].status = "done" => (k = N /\ jobs[j].progress = 100)

\* a running job of two rows that a poll has read after the commit of its
\* first row: one result, progress 50
C21_Witness ==
    \E j \in JobIds :
        /\ Created(j) /\ jobs[j].status = "running"
        /\ Len(hist[j].input) = 2
        /\ Len(jobs[j].results) = 1
        /\ jobs[j].progress = 50
        /\ polled[j] = 50
====
